---- MODULE Spec2Model ----
(***************************************************************************)
(* Model of the registration engine of GrantPlatform:                      *)
(*   server/registration-utils.ts  (createRegistrationProcess,             *)
(*     updateRegistrationStep, verifyRegistrationProcess, ...)             *)
(*   server/storage.ts  (MemStorage: the in-memory keyed tables)           *)
(*   shared/constants.ts, shared/schema.ts                                 *)
(*                                                                         *)
(* A stored JavaScript object is a TLA+ record whose DOMAIN is the set of  *)
(* properties the object has: a property the code never assigned is not in *)
(* the DOMAIN (JavaScript reads it as undefined).  Dates are the token     *)
(* Now: the model keeps which date fields exist, not the clock.            *)
(***************************************************************************)
EXTENDS Integers, Sequences, FiniteSets, TLC

VARIABLES users, applicantTypes, registrationProcesses, verificationDocuments,
          currentApplicantTypeId, currentRegistrationProcessId,
          currentVerificationDocumentId,
          programs, applications, evaluations,
          currentProgramId, currentApplicationId, currentEvaluationId,
          calls, lastCall

vars == <<users, applicantTypes, registrationProcesses, verificationDocuments,
          currentApplicantTypeId, currentRegistrationProcessId,
          currentVerificationDocumentId,
          programs, applications, evaluations,
          currentProgramId, currentApplicationId, currentEvaluationId,
          calls, lastCall>>

\* the tables of programs, applications and evaluations and their counters
grantStore == <<programs, applications, evaluations,
                currentProgramId, currentApplicationId, currentEvaluationId>>

\* the tables and id counters of MemStorage
store == <<users, applicantTypes, registrationProcesses, verificationDocuments,
           currentApplicantTypeId, currentRegistrationProcessId,
           currentVerificationDocumentId, grantStore>>

documentStore == <<verificationDocuments, currentVerificationDocumentId>>

----------------------------------------------------------------------------
(* Bounds of the exploration *)

\* number of registration processes created in one behaviour
MaxProcs == 1

\* number of applicant types created after the seed
MaxNewTypes == 1

\* number of verification documents uploaded in one behaviour
MaxDocs == 1

\* number of labels of the domain of an email
MaxLabels == 2

\* number of verification documents uploaded in one behaviour of the
\* document check over reviewed documents
MaxReviewDocs == 2

\* number of verification documents uploaded in one behaviour of the
\* document check with required documents (a type requires four or five)
MaxUploads == 4

\* number of applications created after the seed
MaxNewApplications == 1

\* number of evaluations created after the seed
MaxNewEvaluations == 1

\* number of advance calls that overlap in one behaviour
MaxCallers == 3

----------------------------------------------------------------------------
(* JavaScript values *)

Undefined == "undefined"
Null == "null"
Now == "date"

\* obj.k, undefined when the object has no such property
Get(obj, k) == IF k \in DOMAIN obj THEN obj[k] ELSE Undefined

\* { ...obj, ...update }
Spread(obj, update) == update @@ obj

\* the truthiness of a string-valued expression: undefined, null and "" are falsy
Truthy(x) == x \notin {Undefined, Null, ""}

\* x || dflt for a string-valued x
OrElse(x, dflt) == IF Truthy(x) THEN x ELSE dflt

\* the elements of an array
Elems(arr) == {arr[i] : i \in 1..Len(arr)}

\* Every object literal inherits the properties of Object.prototype:
\* literal[key] for one of these keys is a function (for __proto__ an
\* object), a truthy value that is no array, where it is undefined for any
\* other key the literal does not have.
ObjectPrototypeProperties ==
  {"constructor", "hasOwnProperty", "isPrototypeOf", "propertyIsEnumerable",
   "toLocaleString", "toString", "valueOf", "__proto__"}

----------------------------------------------------------------------------
(* shared/constants.ts *)

APPLICANT_TYPE ==
  [ORGANIZATION |-> "organization",
   INDIVIDUAL   |-> "individual",
   CORPORATION  |-> "corporation"]

REGISTRATION_STEPS ==
  [individual   |-> <<"account_creation", "personal_information",
                      "contact_details", "identity_verification",
                      "complete_profile">>,
   organization |-> <<"account_creation", "organization_information",
                      "legal_status", "contact_person", "documentation",
                      "verification_submission">>,
   corporation  |-> <<"account_creation", "company_information",
                      "legal_registration", "financial_information",
                      "contact_person", "documentation",
                      "verification_submission">>]

REGISTRATION_STATUS ==
  [INCOMPLETE           |-> "incomplete",
   PENDING_VERIFICATION |-> "pending_verification",
   VERIFIED             |-> "verified",
   REJECTED             |-> "rejected"]

DefaultTotalSteps == 5

REQUIRED_DOCUMENTS ==
  [individual   |-> <<"id_card_passport", "resume_cv", "motivation_letter",
                      "signed_declaration">>,
   organization |-> <<"registration_certificate", "organization_statute",
                      "board_decision", "tax_id_document",
                      "authorized_person_declaration">>,
   corporation  |-> <<"business_registration", "tax_id_document",
                      "bank_statement", "legal_representative_declaration">>]

VERIFICATION_REQUIREMENTS ==
  [id_card_passport |-> <<"document_type", "full_name", "document_number",
                          "expiry_date", "issuing_authority">>,
   resume_cv |-> <<"full_name", "education", "experience", "min_length_words_300">>,
   motivation_letter |-> <<"purpose", "goals", "min_length_words_300">>,
   signed_declaration |-> <<"full_name", "signature", "date">>,
   registration_certificate |-> <<"organization_name", "registration_number",
                                  "registration_date", "issuing_authority">>,
   organization_statute |-> <<"organization_name", "purpose", "governance_structure">>,
   board_decision |-> <<"organization_name", "decision_date", "signatures",
                        "meeting_reference">>,
   tax_id_document |-> <<"entity_name", "tax_id_number", "issue_date">>,
   authorized_person_declaration |-> <<"full_name", "position", "signature", "date">>,
   business_registration |-> <<"company_name", "registration_number",
                               "registration_date", "legal_structure">>,
   bank_statement |-> <<"account_number", "bank_name", "account_holder_name",
                        "statement_date">>,
   legal_representative_declaration |-> <<"full_name", "position", "signature", "date">>]

\* An email domain is kept as the sequence of its labels, the strings
\* between the dots: gmail.com is <<"gmail", "com">>.
\* EMAIL_VALIDATION: pattern is the set of the last labels that
\* /\.(org|ngo|ba|net|com)$/ accepts after a dot, and a null pattern or
\* list (which the code tests for truthiness only) is the empty set.
EMAIL_VALIDATION ==
  [individual   |-> [pattern |-> {}, disallowed_domains |-> {}],
   organization |-> [pattern |-> {"org", "ngo", "ba", "net", "com"},
                     disallowed_domains |->
                       {<<"gmail", "com">>, <<"yahoo", "com">>,
                        <<"hotmail", "com">>, <<"outlook", "com">>,
                        <<"gmail", "ba">>, <<"yahoo", "ba">>}],
   corporation  |-> [pattern |-> {},
                     disallowed_domains |->
                       {<<"gmail", "com">>, <<"yahoo", "com">>,
                        <<"hotmail", "com">>, <<"outlook", "com">>,
                        <<"gmail", "ba">>, <<"yahoo", "ba">>}]]

DOCUMENT_VERIFICATION_STATUS ==
  [PENDING               |-> "pending",
   APPROVED              |-> "approved",
   REJECTED              |-> "rejected",
   REQUIRES_RESUBMISSION |-> "requires_resubmission"]

\* performAIDocumentVerification: the score of the stand-in scorer
ExampleScore == 87

\* validateDocumentWithAI: the thresholds of the status derivation
ApprovedScore == 85
ReviewScore == 60

----------------------------------------------------------------------------
(* MemStorage.seedInitialData: the tables after construction *)

SeedUsers ==
  <<[username |-> "admin1",       role |-> "administrator", id |-> 1, createdAt |-> Now],
    [username |-> "nina_kultura", role |-> "applicant",     id |-> 2, createdAt |-> Now],
    [username |-> "ref_human",    role |-> "referent",      id |-> 3, createdAt |-> Now],
    [username |-> "don_corp",     role |-> "donator",       id |-> 4, createdAt |-> Now],
    [username |-> "reviewer1",    role |-> "reviewer",      id |-> 5, createdAt |-> Now]>>

SeedApplicantTypes ==
  <<[name |-> "ORGANIZATION", id |-> 1,
     registrationSteps |-> <<"Osnovna registracija", "Verifikacija dokumenata",
                             "Pregled i potvrda">>],
    [name |-> "INDIVIDUAL", id |-> 2,
     registrationSteps |-> <<"Osnovna registracija", "Verifikacija identiteta",
                             "Pregled i potvrda">>],
    [name |-> "CORPORATION", id |-> 3,
     registrationSteps |-> <<"Osnovna registracija", "Verifikacija dokumenata",
                             "Finansijska verifikacija", "Pregled i potvrda">>]>>

\* A text the code only stores is written without diacritics; the
\* description of an application is its length in characters and its
\* autoCode the tuple of the parts the code joins with "/".
SeedPrograms ==
  <<[name |-> "Korporativno sponzorstvo", type |-> "sponzorstvo",
     budgetTotal |-> 100000, year |-> 2025, active |-> TRUE, id |-> 1],
    [name |-> "Lokalno sponzorstvo", type |-> "sponzorstvo",
     budgetTotal |-> 50000, year |-> 2025, active |-> TRUE, id |-> 2],
    [name |-> "Humanitarne donacije", type |-> "donacija",
     budgetTotal |-> 75000, year |-> 2025, active |-> TRUE, id |-> 3]>>

\* the seeded applications are put into the table as they are, without id
SeedApplications ==
  <<[applicantId |-> 2, programId |-> 3, status |-> "u obradi",
     submittedAt |-> Now, autoCode |-> <<"0001", "03", "2025">>,
     summary |-> "Donacija za djecije pozoriste",
     requestedAmount |-> 5000, projectDuration |-> 6,
     organization |-> "Kulturni centar", description |-> 61],
    [applicantId |-> 2, programId |-> 1, status |-> "odbijeno",
     submittedAt |-> Now, autoCode |-> <<"0002", "03", "2025">>,
     summary |-> "Sponzorstvo za koncert Zvuk Mira",
     requestedAmount |-> 3000, projectDuration |-> 2,
     organization |-> "Muzicki kolektiv", description |-> 48],
    [applicantId |-> 3, programId |-> 2, status |-> "odobreno",
     submittedAt |-> Now, autoCode |-> <<"0003", "04", "2025">>,
     summary |-> "Podrska lokalnom umjetnickom festivalu",
     requestedAmount |-> 8000, projectDuration |-> 12,
     organization |-> "Art Centar", description |-> 51]>>

SeedEvaluations ==
  <<[applicationId |-> 1, evaluatedBy |-> 3, score |-> 85,
     decision |-> "preporuceno",
     comment |-> "Kompletna dokumentacija, pozitivan utisak", createdAt |-> Now],
    [applicationId |-> 2, evaluatedBy |-> 3, score |-> 45,
     decision |-> "odbijeno",
     comment |-> "Nedostaje detaljan finansijski plan", createdAt |-> Now]>>

\* an advance call that has not been made
Idle == [phase |-> "idle"]

\* the advance calls that may be in flight
Callers == 1..MaxCallers

NoCall == [op |-> "none", arg |-> 0, error |-> "", result |-> Undefined]

Init ==
  /\ users = [i \in 1..Len(SeedUsers) |-> SeedUsers[i]]
  /\ applicantTypes = [i \in 1..Len(SeedApplicantTypes) |-> SeedApplicantTypes[i]]
  /\ registrationProcesses = <<>>
  /\ verificationDocuments = <<>>
  /\ currentApplicantTypeId = Len(SeedApplicantTypes) + 1
  /\ currentRegistrationProcessId = 1
  /\ currentVerificationDocumentId = 1
  /\ programs = [i \in 1..Len(SeedPrograms) |-> SeedPrograms[i]]
  /\ applications = [i \in 1..Len(SeedApplications) |-> SeedApplications[i]]
  /\ evaluations = [i \in 1..Len(SeedEvaluations) |-> SeedEvaluations[i]]
  /\ currentProgramId = Len(SeedPrograms) + 1
  /\ currentApplicationId = Len(SeedApplications) + 1
  /\ currentEvaluationId = Len(SeedEvaluations) + 1
  /\ calls = [c \in Callers |-> Idle]
  /\ lastCall = NoCall

----------------------------------------------------------------------------
(* MemStorage: the table operations.  Each takes the table and returns the *)
(* new table; the id counters are advanced by the calling action.          *)

\* a slip of updateUser: the merged record is returned and never stored
MemUpdateUserNotStored(table, id, userUpdate) == table

\* MemStorage.updateUser: no user, no change
MemUpdateUser(table, id, userUpdate) ==
  IF id \notin DOMAIN table THEN table
  ELSE [table EXCEPT ![id] = Spread(table[id], userUpdate)]

\* MemStorage.createApplicantType: { ...insertApplicantType, id }
MemCreateApplicantType(id, insertApplicantType) ==
  Spread(insertApplicantType, [id |-> id])

\* MemStorage.createRegistrationProcess:
\*   { ...insertRegistrationProcess, id, createdAt, updatedAt }
MemCreateRegistrationProcess(id, insertRegistrationProcess) ==
  Spread(insertRegistrationProcess,
         [id |-> id, createdAt |-> Now, updatedAt |-> Now])

\* MemStorage.updateRegistrationProcess:
\*   { ...registrationProcess, ...registrationProcessUpdate, updatedAt }
MemUpdateRegistrationProcess(table, id, registrationProcessUpdate) ==
  IF id \notin DOMAIN table THEN table
  ELSE [table EXCEPT ![id] =
          Spread(Spread(table[id], registrationProcessUpdate),
                 [updatedAt |-> Now])]

\* MemStorage.createVerificationDocument:
\*   { ...insertVerificationDocument, id, uploadedAt, updatedAt }
MemCreateVerificationDocument(id, insertVerificationDocument) ==
  Spread(insertVerificationDocument,
         [id |-> id, uploadedAt |-> Now, updatedAt |-> Now])

\* MemStorage.updateVerificationDocument
MemUpdateVerificationDocument(table, id, verificationDocumentUpdate) ==
  IF id \notin DOMAIN table THEN table
  ELSE [table EXCEPT ![id] =
          Spread(Spread(table[id], verificationDocumentUpdate),
                 [updatedAt |-> Now])]

\* id.toString().padStart(4, '0')
PadStart4(id) == <<"0001", "0002", "0003", "0004", "0005", "0006", "0007", "0008">>[id]

\* MemStorage.createApplication: the month and year of the clock are tokens
MemCreateApplication(id, insertApplication) ==
  Spread(insertApplication,
         [id |-> id, status |-> "draft",
          autoCode |-> <<PadStart4(id), "month", "year">>])

\* MemStorage.updateApplication
MemUpdateApplication(table, id, applicationUpdate) ==
  IF id \notin DOMAIN table THEN table
  ELSE LET application == table[id]
           dated == IF /\ Get(applicationUpdate, "status") = "submitted"
                       /\ application.status = "draft"
                      THEN Spread(applicationUpdate, [submittedAt |-> Now])
                      ELSE applicationUpdate
       IN [table EXCEPT ![id] = Spread(application, dated)]

\* MemStorage.createEvaluation
MemCreateEvaluation(id, insertEvaluation) ==
  Spread(insertEvaluation, [id |-> id, createdAt |-> Now])

\* MemStorage.getVerificationDocumentsByRegistrationProcess, in insertion
\* (id) order
RECURSIVE DocumentsOf(_, _, _)
DocumentsOf(table, registrationProcessId, id) ==
  IF id \notin DOMAIN table THEN <<>>
  ELSE (IF Get(table[id], "registrationProcessId") = registrationProcessId
          THEN <<table[id]>> ELSE <<>>)
       \o DocumentsOf(table, registrationProcessId, id + 1)

----------------------------------------------------------------------------
(* registration-utils.ts: the pure parts *)

\* createRegistrationProcess, lines 31-41: the step count by type name
TotalStepsFor(applicantType) ==
  IF applicantType.name = APPLICANT_TYPE.INDIVIDUAL
    THEN Len(REGISTRATION_STEPS[APPLICANT_TYPE.INDIVIDUAL])
  ELSE IF applicantType.name = APPLICANT_TYPE.ORGANIZATION
    THEN Len(REGISTRATION_STEPS[APPLICANT_TYPE.ORGANIZATION])
  ELSE IF applicantType.name = APPLICANT_TYPE.CORPORATION
    THEN Len(REGISTRATION_STEPS[APPLICANT_TYPE.CORPORATION])
  ELSE DefaultTotalSteps

\* a slip of line 68: the step is appended without the includes() test
NewCompletedStepsNoIncludes(process, completedStep) ==
  LET completedSteps == IF "completedSteps" \in DOMAIN process
                          THEN process.completedSteps ELSE <<>>
  IN IF Truthy(completedStep)
       THEN Append(completedSteps, completedStep)
       ELSE completedSteps

\* updateRegistrationStep, lines 67-70: process.completedSteps || [] with
\* the completed step appended when it is given and not yet included
NewCompletedSteps(process, completedStep) ==
  LET completedSteps == IF "completedSteps" \in DOMAIN process
                          THEN process.completedSteps ELSE <<>>
  IN IF Truthy(completedStep) /\ completedStep \notin Elems(completedSteps)
       THEN Append(completedSteps, completedStep)
       ELSE completedSteps

\* a slip of line 73: > for >=
StepStatusStrict(completedSteps, totalSteps) ==
  IF Len(completedSteps) > totalSteps
    THEN REGISTRATION_STATUS.PENDING_VERIFICATION
    ELSE REGISTRATION_STATUS.INCOMPLETE

\* a slip of line 73: === for >=
StepStatusExact(completedSteps, totalSteps) ==
  IF Len(completedSteps) = totalSteps
    THEN REGISTRATION_STATUS.PENDING_VERIFICATION
    ELSE REGISTRATION_STATUS.INCOMPLETE

\* updateRegistrationStep, lines 73-75
StepStatus(completedSteps, totalSteps) ==
  IF Len(completedSteps) >= totalSteps
    THEN REGISTRATION_STATUS.PENDING_VERIFICATION
    ELSE REGISTRATION_STATUS.INCOMPLETE

\* a slip of line 99: the two outcomes exchanged
VerifyStatusInverted(approved) ==
  IF approved THEN REGISTRATION_STATUS.REJECTED ELSE REGISTRATION_STATUS.VERIFIED

\* verifyRegistrationProcess, line 99
VerifyStatus(approved) ==
  IF approved THEN REGISTRATION_STATUS.VERIFIED ELSE REGISTRATION_STATUS.REJECTED

\* VERIFICATION_REQUIREMENTS[documentType] || [] is an array: it is a
\* function or an object, without forEach, for a documentType that names a
\* property of Object.prototype
RequirementsIsArray(documentType) ==
  \/ documentType \in DOMAIN VERIFICATION_REQUIREMENTS
  \/ documentType \notin ObjectPrototypeProperties

\* VERIFICATION_REQUIREMENTS[documentType] || [], when that is an array
RequirementsOf(documentType) ==
  IF documentType \in DOMAIN VERIFICATION_REQUIREMENTS
    THEN VERIFICATION_REQUIREMENTS[documentType] ELSE <<>>

\* performAIDocumentVerification(documentPath, documentType).  The value of
\* an extracted field, `Sample ${field.replace('_', ' ')}`, is kept as the
\* pair of the prefix and the field name.
performAIDocumentVerification(documentPath, documentType) ==
  LET requirements == RequirementsOf(documentType)
  IN [verified |-> TRUE,
      score |-> ExampleScore,
      extractedFields |-> [field \in Elems(requirements) |-> <<"Sample", field>>],
      message |-> "Document appears to be valid and all required information was successfully extracted."]

\* String.toLowerCase on the labels: the labels written in upper case
UpperCaseLabels == [GMAIL |-> "gmail", ORG |-> "org"]

toLowerCase(labels) ==
  [i \in 1..Len(labels) |->
     IF labels[i] \in DOMAIN UpperCaseLabels
       THEN UpperCaseLabels[labels[i]] ELSE labels[i]]

\* An email is the sequence of its parts, the strings between the "@"
\* signs (email.split('@')), each part the sequence of its labels; the
\* empty string is the one empty part.
EmptyEmail == << <<>> >>

\* a slip of line 199: an empty domain part passes for a domain
HasDomainPart(email) == Len(email) >= 2

\* email.split('@')[1] is a non-empty string
HasDomain(email) == Len(email) >= 2 /\ email[2] # <<>>

\* a slip of line 198: the domain is compared as it was typed
DomainOfAsTyped(email) == email[2]

\* email.split('@')[1]?.toLowerCase(), for an email that has a domain
DomainOf(email) == toLowerCase(email[2])

\* a slip of line 204: a type without rules is held to the rules of
\* organizations
RulesOfOrganizationByDefault(applicantType) ==
  IF applicantType \in DOMAIN EMAIL_VALIDATION
    THEN [found |-> TRUE] @@ EMAIL_VALIDATION[applicantType]
  ELSE [found |-> TRUE] @@ EMAIL_VALIDATION[APPLICANT_TYPE.ORGANIZATION]

\* EMAIL_VALIDATION[applicantType]: found is its truthiness.  For a name
\* of a property of Object.prototype it is truthy and has neither
\* pattern nor disallowed_domains.
RulesOf(applicantType) ==
  IF applicantType \in DOMAIN EMAIL_VALIDATION
    THEN [found |-> TRUE] @@ EMAIL_VALIDATION[applicantType]
  ELSE [found |-> applicantType \in ObjectPrototypeProperties,
        pattern |-> {}, disallowed_domains |-> {}]

\* a slip of lines 215-216: the disallowed domains are looked at for
\* organizations only
IsDisallowedForOrganization(applicantType, validationRules, domain) ==
  /\ applicantType = APPLICANT_TYPE.ORGANIZATION
  /\ validationRules.disallowed_domains # {}
  /\ domain \in validationRules.disallowed_domains

\* lines 215-216: validationRules.disallowed_domains &&
\*   validationRules.disallowed_domains.includes(domain)
IsDisallowed(applicantType, validationRules, domain) ==
  /\ validationRules.disallowed_domains # {}
  /\ domain \in validationRules.disallowed_domains

\* validationRules.pattern.test(domain): a dot and one of the labels of
\* the pattern end the domain
PatternTest(pattern, domain) ==
  Len(domain) >= 2 /\ domain[Len(domain)] \in pattern

\* validateEmailForApplicantType(email, applicantType)
validateEmailForApplicantType(email, applicantType) ==
  IF email = EmptyEmail
    THEN [valid |-> FALSE, message |-> "Email is required"]
  ELSE IF ~HasDomain(email)
    THEN [valid |-> FALSE, message |-> "Invalid email format"]
  ELSE LET domain == DomainOf(email)
           validationRules == RulesOf(applicantType)
       IN IF ~validationRules.found THEN [valid |-> TRUE]
          ELSE IF applicantType = APPLICANT_TYPE.INDIVIDUAL THEN [valid |-> TRUE]
          ELSE IF IsDisallowed(applicantType, validationRules, domain)
            THEN [valid |-> FALSE,
                  message |->
                    IF applicantType = APPLICANT_TYPE.ORGANIZATION
                      THEN "Organizations cannot use personal email domains like gmail.com, yahoo.com, etc."
                      ELSE "Corporations cannot use personal email domains like gmail.com, yahoo.com, etc."]
          ELSE IF /\ applicantType = APPLICANT_TYPE.ORGANIZATION
                  /\ validationRules.pattern # {}
                  /\ ~PatternTest(validationRules.pattern, domain)
            THEN [valid |-> FALSE,
                  message |-> "Organizations should use official domain names ending with .org, .ngo, .ba, .net, or .com"]
          ELSE [valid |-> TRUE]

\* a slip of line 171: > for >=
ScoreStatusStrict(score) ==
  IF score >= ApprovedScore THEN DOCUMENT_VERIFICATION_STATUS.APPROVED
  ELSE IF score > ReviewScore THEN DOCUMENT_VERIFICATION_STATUS.PENDING
  ELSE DOCUMENT_VERIFICATION_STATUS.REQUIRES_RESUBMISSION

\* a slip of line 174: a low score rejects the document
ScoreStatusRejecting(score) ==
  IF score >= ApprovedScore THEN DOCUMENT_VERIFICATION_STATUS.APPROVED
  ELSE IF score >= ReviewScore THEN DOCUMENT_VERIFICATION_STATUS.PENDING
  ELSE DOCUMENT_VERIFICATION_STATUS.REJECTED

\* validateDocumentWithAI, lines 167-175: the status of a score
ScoreStatus(score) ==
  IF score >= ApprovedScore THEN DOCUMENT_VERIFICATION_STATUS.APPROVED
  ELSE IF score >= ReviewScore THEN DOCUMENT_VERIFICATION_STATUS.PENDING
  ELSE DOCUMENT_VERIFICATION_STATUS.REQUIRES_RESUBMISSION

\* REQUIRED_DOCUMENTS[applicantType.name] || []
RequiredDocsOf(applicantType) ==
  IF applicantType.name \in DOMAIN REQUIRED_DOCUMENTS
    THEN REQUIRED_DOCUMENTS[applicantType.name] ELSE <<>>

\* a slip of line 270: a required type counts as uploaded only when a
\* document of the type is approved
DocumentVerificationStatusApprovedUploads(documents, requiredDocs) ==
  LET IsApproved(doc) ==
        Get(doc, "verificationStatus") = DOCUMENT_VERIFICATION_STATUS.APPROVED
      IsRejected(doc) ==
        Get(doc, "verificationStatus") \in
          {DOCUMENT_VERIFICATION_STATUS.REJECTED,
           DOCUMENT_VERIFICATION_STATUS.REQUIRES_RESUBMISSION}
      TypesOf(docs) == [i \in 1..Len(docs) |-> docs[i].documentType]
      verifiedDocTypes == TypesOf(SelectSeq(documents, IsApproved))
      pendingDocuments ==
        SelectSeq(requiredDocs,
                  LAMBDA doc : doc \notin Elems(verifiedDocTypes))
      rejectedDocuments == TypesOf(SelectSeq(documents, IsRejected))
  IN [allUploaded |-> Len(pendingDocuments) = 0,
      allVerified |-> Len(verifiedDocTypes) = Len(requiredDocs),
      pendingDocuments |-> pendingDocuments,
      rejectedDocuments |-> rejectedDocuments]

\* a slip of lines 272-273: requires_resubmission is left out of the filter
DocumentVerificationStatusRejectedOnly(documents, requiredDocs) ==
  LET IsApproved(doc) ==
        Get(doc, "verificationStatus") = DOCUMENT_VERIFICATION_STATUS.APPROVED
      IsRejected(doc) ==
        Get(doc, "verificationStatus") = DOCUMENT_VERIFICATION_STATUS.REJECTED
      TypesOf(docs) == [i \in 1..Len(docs) |-> docs[i].documentType]
      uploadedDocTypes == TypesOf(documents)
      verifiedDocTypes == TypesOf(SelectSeq(documents, IsApproved))
      pendingDocuments ==
        SelectSeq(requiredDocs,
                  LAMBDA doc : doc \notin Elems(uploadedDocTypes))
      rejectedDocuments == TypesOf(SelectSeq(documents, IsRejected))
  IN [allUploaded |-> Len(pendingDocuments) = 0,
      allVerified |-> Len(verifiedDocTypes) = Len(requiredDocs),
      pendingDocuments |-> pendingDocuments,
      rejectedDocuments |-> rejectedDocuments]

\* checkDocumentVerificationStatus, lines 265-281: the answer for the
\* uploaded documents and the required document types
DocumentVerificationStatus(documents, requiredDocs) ==
  LET IsApproved(doc) ==
        Get(doc, "verificationStatus") = DOCUMENT_VERIFICATION_STATUS.APPROVED
      IsRejected(doc) ==
        Get(doc, "verificationStatus") \in
          {DOCUMENT_VERIFICATION_STATUS.REJECTED,
           DOCUMENT_VERIFICATION_STATUS.REQUIRES_RESUBMISSION}
      TypesOf(docs) == [i \in 1..Len(docs) |-> docs[i].documentType]
      uploadedDocTypes == TypesOf(documents)
      verifiedDocTypes == TypesOf(SelectSeq(documents, IsApproved))
      pendingDocuments ==
        SelectSeq(requiredDocs,
                  LAMBDA doc : doc \notin Elems(uploadedDocTypes))
      rejectedDocuments == TypesOf(SelectSeq(documents, IsRejected))
  IN [allUploaded |-> Len(pendingDocuments) = 0,
      allVerified |-> Len(verifiedDocTypes) = Len(requiredDocs),
      pendingDocuments |-> pendingDocuments,
      rejectedDocuments |-> rejectedDocuments]

----------------------------------------------------------------------------
(* routes.ts: generateAIEvaluation.  An application is the record of the   *)
(* columns that are set: a column that is null or missing is not in its    *)
(* DOMAIN.  A text column the scorer reads the length of (description) is  *)
(* kept as that length.                                                    *)

\* the truthiness of a number column: null, undefined and 0 are falsy
TruthyNumber(obj, k) == k \in DOMAIN obj /\ obj[k] # 0

\* requestedAmount / budgetTotal < 0.1, for a budgetTotal that is not 0
RatioBelowTenth(requestedAmount, budgetTotal) ==
  IF budgetTotal > 0 THEN 10 * requestedAmount < budgetTotal
  ELSE 10 * requestedAmount > budgetTotal

\* requestedAmount / budgetTotal > 0.3, for a budgetTotal that is not 0
RatioAboveThreeTenths(requestedAmount, budgetTotal) ==
  IF budgetTotal > 0 THEN 10 * requestedAmount > 3 * budgetTotal
  ELSE 10 * requestedAmount < 3 * budgetTotal

\* what a rule of the scorer does: the change of the score and the
\* strengths and weaknesses it pushes
NoAdjustment == [score |-> 0, strengths |-> <<>>, weaknesses |-> <<>>]
Strength(points, text) == [score |-> points, strengths |-> <<text>>, weaknesses |-> <<>>]
Weakness(points, text) == [score |-> points, strengths |-> <<>>, weaknesses |-> <<text>>]

\* lines 42-54
BudgetRule(application, program) ==
  IF TruthyNumber(application, "requestedAmount") /\ TruthyNumber(program, "budgetTotal")
    THEN IF RatioBelowTenth(application.requestedAmount, program.budgetTotal)
           THEN Strength(10, "Reasonable budget request relative to program size")
         ELSE IF RatioAboveThreeTenths(application.requestedAmount, program.budgetTotal)
           THEN Weakness(0 - 15, "Requested amount is significant portion of total program budget")
         ELSE NoAdjustment
    ELSE NoAdjustment

\* a slip of line 57: >= for >
DescriptionRuleFrom300(application) ==
  IF TruthyNumber(application, "description") /\ application.description >= 300
    THEN Strength(5, "Detailed project description provided")
    ELSE Weakness(0 - 5, "Project description could be more comprehensive")

\* lines 57-63
DescriptionRule(application) ==
  IF TruthyNumber(application, "description") /\ application.description > 300
    THEN Strength(5, "Detailed project description provided")
    ELSE Weakness(0 - 5, "Project description could be more comprehensive")

\* a slip of lines 69-71: missing organizational details cost five points
OrganizationRulePenalising(application) ==
  IF Truthy(Get(application, "organization"))
    THEN Strength(5, "Clear organizational information provided")
    ELSE Weakness(0 - 5, "Missing organizational details")

\* lines 66-71
OrganizationRule(application) ==
  IF Truthy(Get(application, "organization"))
    THEN Strength(5, "Clear organizational information provided")
    ELSE Weakness(0, "Missing organizational details")

\* lines 74-82
DurationRule(application) ==
  IF TruthyNumber(application, "projectDuration")
    THEN IF application.projectDuration > 24
           THEN Weakness(0 - 5, "Project timeline may be too long for effective monitoring")
         ELSE IF application.projectDuration < 6
           THEN Strength(5, "Project has focused, achievable timeline")
         ELSE NoAdjustment
    ELSE NoAdjustment

\* a slip of line 88: > for >=
DecisionOfAbove80(score) ==
  IF score > 80
    THEN [decision |-> "preporuceno",
          recommendation |-> "This application shows strong potential for success and alignment with program goals."]
  ELSE IF score < 60
    THEN [decision |-> "odbijeno",
          recommendation |-> "This application has several areas that need improvement before it can be recommended."]
  ELSE [decision |-> "revisit",
        recommendation |-> "This application has potential but requires further discussion and possibly additional information."]

\* lines 85-97 (the decision "preporučeno" is written without its diacritic)
DecisionOf(score) ==
  IF score >= 80
    THEN [decision |-> "preporuceno",
          recommendation |-> "This application shows strong potential for success and alignment with program goals."]
  ELSE IF score < 60
    THEN [decision |-> "odbijeno",
          recommendation |-> "This application has several areas that need improvement before it can be recommended."]
  ELSE [decision |-> "revisit",
        recommendation |-> "This application has potential but requires further discussion and possibly additional information."]

\* the score before any rule, line 38
DefaultScore == 75

\* generateAIEvaluation(application, program, applicant).  The comment, a
\* template filled with the summary, the program name, the score, the two
\* lists and the recommendation, is kept as the tuple of these.
generateAIEvaluation(application, program, applicant) ==
  LET rules == <<BudgetRule(application, program), DescriptionRule(application),
                 OrganizationRule(application), DurationRule(application)>>
      score == DefaultScore + rules[1].score + rules[2].score + rules[3].score
                 + rules[4].score
      strengths == rules[1].strengths \o rules[2].strengths \o rules[3].strengths
                     \o rules[4].strengths
      weaknesses == rules[1].weaknesses \o rules[2].weaknesses
                      \o rules[3].weaknesses \o rules[4].weaknesses
      verdict == DecisionOf(score)
  IN [score |-> score,
      decision |-> verdict.decision,
      comment |-> <<Get(application, "summary"), Get(program, "name"), score,
                    strengths, weaknesses, verdict.recommendation>>,
      insights |-> [strengths |-> strengths,
                    weaknesses |-> weaknesses,
                    recommendation |-> verdict.recommendation]]

----------------------------------------------------------------------------
(* The calls.  lastCall keeps what the last call was and what it gave      *)
(* back: arg is the id the call was given (0 for a storage create, which   *)
(* takes none), error the message of the Error it threw ("" when it        *)
(* returned), result the value it returned.                                *)

Returned(op, arg, result) == [op |-> op, arg |-> arg, error |-> "", result |-> result]
Threw(op, arg, message) == [op |-> op, arg |-> arg, error |-> message, result |-> Undefined]

\* the inputs the calls are tried with: for an id, the ids of the stored
\* entities, and with them the next id of the counter as an id of no entity
UserIdInputs == {2, 6}
StoredApplicantTypeIds == DOMAIN applicantTypes
ApplicantTypeIdInputs == StoredApplicantTypeIds \cup {currentApplicantTypeId}
StoredProcessIds == DOMAIN registrationProcesses
ProcessIdInputs == StoredProcessIds \cup {currentRegistrationProcessId}
DocumentIdInputs == DOMAIN verificationDocuments \cup {currentVerificationDocumentId}
\* the document uploaded last, if any
LatestDocument == DOMAIN verificationDocuments \cap {currentVerificationDocumentId - 1}
NewStepInputs == {1, 8}
AdminIdInputs == {1}
RejectionReasonInputs == {Undefined, "", "incomplete documentation"}
ApplicantTypeNameInputs == {"individual", "organization", "corporation"}
DocumentTypeInputs == {"id_card_passport", "selfie"}
ReviewedTypeInputs == {"resume_cv", "selfie"}
\* labels of a domain, two of them written in upper case, and the domains
\* of up to MaxLabels labels
LabelInputs == {"gmail", "GMAIL", "yahoo", "udruzenje", "ngo", "org", "ORG",
                "com", "ba", "io"}
DomainInputs == UNION {[1..n -> LabelInputs] : n \in 0..MaxLabels}

\* emails: the empty string, info (no "@"), info@domain and
\* info@domain@gmail.com
EmailInputs ==
  {EmptyEmail, << <<"info">> >>}
    \cup {<< <<"info">>, domain >> : domain \in DomainInputs}
    \cup {<< <<"info">>, domain, <<"gmail", "com">> >> : domain \in DomainInputs}

\* applicant type names: those of APPLICANT_TYPE, the name of a seeded
\* type and the name of a property of Object.prototype
EmailTypeInputs == {"individual", "organization", "corporation",
                    "ORGANIZATION", "constructor"}

\* document types: those with requirements, and two without
VerifiedTypeInputs == DOMAIN VERIFICATION_REQUIREMENTS \cup {"selfie", "constructor"}

\* the column k of a row: not set, or set to one of the values
Column(k, values) == {<<>>} \cup {k :> v : v \in values}

\* applications: the requested amounts around a tenth and three tenths of
\* the budget 100000, the description lengths around 300, the durations
\* around 6 and 24 months, each column also 0 (or empty) and not set
RequestedAmountInputs == {0 - 5000, 0, 5000, 9999, 10000, 30000, 30001, 40000}
DescriptionInputs == {0, 50, 300, 301, 350}
OrganizationInputs == {"", "X"}
ProjectDurationInputs == {0 - 1, 0, 4, 5, 6, 24, 25, 30}
BudgetTotalInputs == {0 - 100000, 0, 100000}

ApplicationInputs ==
  {[applicantId |-> 2, programId |-> 1, summary |-> "summary"]
     @@ requestedAmount @@ description @@ organization @@ projectDuration :
       requestedAmount \in Column("requestedAmount", RequestedAmountInputs),
       description \in Column("description", DescriptionInputs),
       organization \in Column("organization", OrganizationInputs),
       projectDuration \in Column("projectDuration", ProjectDurationInputs)}

ProgramInputs ==
  {[id |-> 1, name |-> "Korporativno sponzorstvo", budgetTotal |-> budgetTotal] :
     budgetTotal \in BudgetTotalInputs}

\* the process created last, if any
LatestProcess == DOMAIN registrationProcesses \cap {currentRegistrationProcessId - 1}

\* requests: not authenticated, of the applicant nina_kultura, of the
\* reviewer
RequestInputs == Column("user", {2, 5})

\* requests that post an application: not authenticated, of the applicant
ApplicantRequestInputs == Column("user", {2})

\* bodies of POST /api/applications: the second example of the scorer, an
\* application for a program that is not stored, and one without summary
ApplicationBodyInputs ==
  {[programId |-> 1, summary |-> "summary", requestedAmount |-> 40000,
    description |-> 50, projectDuration |-> 30],
   [programId |-> 9, summary |-> "summary", requestedAmount |-> 5000],
   [programId |-> 1, requestedAmount |-> 5000]}

ApplicationIdInputs == DOMAIN applications \cup {currentApplicationId}

\* bodies of POST /api/applications/:id/evaluations
EvaluationBodyInputs ==
  {[score |-> 45, decision |-> "revisit", comment |-> "comment"],
   [score |-> 70],
   [score |-> 70, decision |-> "draft"]}

\* scores of a verification: every fifth score of 0..100 (the two
\* thresholds among them), the scores next to each threshold and the score
\* of the stand-in
ScoreInputs == {s \in 0..100 : s % 5 = 0}
                 \cup {ReviewScore - 1, ReviewScore + 1, ApprovedScore - 1,
                       ApprovedScore + 1, ExampleScore}
DocumentStatusInputs ==
  {DOCUMENT_VERIFICATION_STATUS.PENDING, DOCUMENT_VERIFICATION_STATUS.APPROVED,
   DOCUMENT_VERIFICATION_STATUS.REJECTED,
   DOCUMENT_VERIFICATION_STATUS.REQUIRES_RESUBMISSION}

\* Step names are free strings to the code.  New names are offered in the
\* order of the longest step list, until the process has one completed step
\* more than its totalSteps; a call may also repeat a completed step, give
\* the empty string or give none.
StepAlphabet == REGISTRATION_STEPS[APPLICANT_TYPE.CORPORATION]

CompletedStepInputs(id) ==
  LET known == id \in DOMAIN registrationProcesses
      done == IF known
                THEN Elems(NewCompletedSteps(registrationProcesses[id], Undefined))
                ELSE {}
      open == {i \in 1..Len(StepAlphabet) :
                 /\ StepAlphabet[i] \notin done
                 /\ known => Cardinality(done) <= registrationProcesses[id].totalSteps}
  IN {Undefined, ""} \cup done
       \cup {StepAlphabet[i] : i \in {j \in open : \A k \in open : j <= k}}

\* the first n steps of StepAlphabet that process has not completed
OpenSteps(process, n) ==
  LET done == Elems(NewCompletedSteps(process, Undefined))
      open == {i \in 1..Len(StepAlphabet) : StepAlphabet[i] \notin done}
  IN {StepAlphabet[i] : i \in {j \in open : Cardinality({k \in open : k < j}) < n}}

\* storage.createApplicantType(insertApplicantType)
createApplicantType(insertApplicantType) ==
  /\ currentApplicantTypeId <= Len(SeedApplicantTypes) + MaxNewTypes
  /\ LET id == currentApplicantTypeId
         applicantType == MemCreateApplicantType(id, insertApplicantType)
     IN /\ currentApplicantTypeId' = id + 1
        /\ applicantTypes' = (id :> applicantType) @@ applicantTypes
        /\ lastCall' = Returned("createApplicantType", 0, applicantType)
  /\ UNCHANGED <<grantStore, calls,
                 users, registrationProcesses, currentRegistrationProcessId,
                 documentStore>>

\* a slip of createRegistrationProcess: the process is stored (with the
\* default step count) before the applicant type is looked at
createRegistrationProcessStoredFirst(userId, applicantTypeId) ==
  /\ currentRegistrationProcessId <= MaxProcs
  /\ LET id == currentRegistrationProcessId
         totalSteps == IF applicantTypeId \in DOMAIN applicantTypes
                         THEN TotalStepsFor(applicantTypes[applicantTypeId])
                         ELSE DefaultTotalSteps
         registrationProcess ==
           MemCreateRegistrationProcess(id,
              [userId |-> userId, applicantTypeId |-> applicantTypeId,
               totalSteps |-> totalSteps])
     IN /\ currentRegistrationProcessId' = id + 1
        /\ registrationProcesses' =
             (id :> registrationProcess) @@ registrationProcesses
        /\ lastCall' = IF applicantTypeId \in DOMAIN applicantTypes
                         THEN Returned("createRegistrationProcess", applicantTypeId,
                                       registrationProcess)
                         ELSE Threw("createRegistrationProcess", applicantTypeId,
                                    "Invalid applicant type")
  /\ UNCHANGED <<grantStore, calls,
                 users, applicantTypes, currentApplicantTypeId, documentStore>>

\* createRegistrationProcess(userId, applicantTypeId)
createRegistrationProcess(userId, applicantTypeId) ==
  IF applicantTypeId \notin DOMAIN applicantTypes
    THEN /\ lastCall' = Threw("createRegistrationProcess", applicantTypeId,
                              "Invalid applicant type")
         /\ UNCHANGED <<store, calls>>
    ELSE /\ currentRegistrationProcessId <= MaxProcs
         /\ LET totalSteps == TotalStepsFor(applicantTypes[applicantTypeId])
                id == currentRegistrationProcessId
                registrationProcess ==
                  MemCreateRegistrationProcess(id,
                     [userId |-> userId, applicantTypeId |-> applicantTypeId,
                      totalSteps |-> totalSteps])
            IN /\ currentRegistrationProcessId' = id + 1
               /\ registrationProcesses' =
                    (id :> registrationProcess) @@ registrationProcesses
               /\ lastCall' = Returned("createRegistrationProcess", applicantTypeId,
                                       registrationProcess)
         /\ UNCHANGED <<grantStore, calls,
                        users, applicantTypes, currentApplicantTypeId, documentStore>>

\* updateRegistrationStep(registrationProcessId, newStep, completedStep)
updateRegistrationStep(registrationProcessId, newStep, completedStep) ==
  IF registrationProcessId \notin DOMAIN registrationProcesses
    THEN /\ lastCall' = Threw("updateRegistrationStep", registrationProcessId,
                              "Registration process not found")
         /\ UNCHANGED <<store, calls>>
    ELSE LET process == registrationProcesses[registrationProcessId]
             completedSteps == NewCompletedSteps(process, completedStep)
             status == StepStatus(completedSteps, process.totalSteps)
             updated == MemUpdateRegistrationProcess(registrationProcesses,
                          registrationProcessId,
                          [currentStep |-> newStep,
                           completedSteps |-> completedSteps,
                           status |-> status,
                           updatedAt |-> Now])
         IN /\ registrationProcesses' = updated
            /\ lastCall' = Returned("updateRegistrationStep", registrationProcessId,
                                    updated[registrationProcessId])
            /\ UNCHANGED <<grantStore, calls,
                           users, applicantTypes, currentApplicantTypeId,
                           currentRegistrationProcessId, documentStore>>

\* updateRegistrationStep as the two steps a call is made of when calls
\* overlap: the call runs to `await storage.getRegistrationProcess` and is
\* suspended with the process it read; when it is resumed it computes the
\* update from that process and calls storage.updateRegistrationProcess.
\* calls[c] is the call of caller c: not made, suspended, or returned.
readRegistrationStep(c, registrationProcessId, newStep, completedStep) ==
  /\ calls[c] = Idle
  /\ IF registrationProcessId \notin DOMAIN registrationProcesses
       THEN /\ calls' = [calls EXCEPT ![c] = [phase |-> "threw"]]
            /\ lastCall' = Threw("updateRegistrationStep", registrationProcessId,
                                 "Registration process not found")
       ELSE /\ calls' = [calls EXCEPT ![c] =
                          [phase |-> "read",
                           registrationProcessId |-> registrationProcessId,
                           newStep |-> newStep,
                           completedStep |-> completedStep,
                           process |-> registrationProcesses[registrationProcessId]]]
            /\ UNCHANGED lastCall
  /\ UNCHANGED store

writeRegistrationStepOfStored(c) ==
  /\ calls[c].phase = "read"
  /\ LET call == calls[c]
         process == registrationProcesses[call.registrationProcessId]
         completedSteps == NewCompletedSteps(process, call.completedStep)
         status == StepStatus(completedSteps, process.totalSteps)
         updated == MemUpdateRegistrationProcess(registrationProcesses,
                      call.registrationProcessId,
                      [currentStep |-> call.newStep,
                       completedSteps |-> completedSteps,
                       status |-> status,
                       updatedAt |-> Now])
     IN /\ registrationProcesses' = updated
        /\ calls' = [calls EXCEPT ![c] =
                      Spread(call, [phase |-> "returned",
                                    result |-> updated[call.registrationProcessId]])]
        /\ lastCall' = Returned("updateRegistrationStep", call.registrationProcessId,
                                updated[call.registrationProcessId])
        /\ UNCHANGED <<grantStore, users, applicantTypes, currentApplicantTypeId,
                       currentRegistrationProcessId, documentStore>>

writeRegistrationStep(c) ==
  /\ calls[c].phase = "read"
  /\ LET call == calls[c]
         process == call.process
         completedSteps == NewCompletedSteps(process, call.completedStep)
         status == StepStatus(completedSteps, process.totalSteps)
         updated == MemUpdateRegistrationProcess(registrationProcesses,
                      call.registrationProcessId,
                      [currentStep |-> call.newStep,
                       completedSteps |-> completedSteps,
                       status |-> status,
                       updatedAt |-> Now])
     IN /\ registrationProcesses' = updated
        /\ calls' = [calls EXCEPT ![c] =
                      Spread(call, [phase |-> "returned",
                                    result |-> updated[call.registrationProcessId]])]
        /\ lastCall' = Returned("updateRegistrationStep", call.registrationProcessId,
                                updated[call.registrationProcessId])
        /\ UNCHANGED <<grantStore, users, applicantTypes, currentApplicantTypeId,
                       currentRegistrationProcessId, documentStore>>

\* verifyRegistrationProcess(registrationProcessId, adminId, approved, rejectionReason)
verifyRegistrationProcess(registrationProcessId, adminId, approved, rejectionReason) ==
  IF registrationProcessId \notin DOMAIN registrationProcesses
    THEN /\ lastCall' = Threw("verifyRegistrationProcess", registrationProcessId,
                              "Registration process not found")
         /\ UNCHANGED <<store, calls>>
    ELSE LET process == registrationProcesses[registrationProcessId]
             status == VerifyStatus(approved)
             updated == MemUpdateRegistrationProcess(registrationProcesses,
                          registrationProcessId,
                          [status |-> status,
                           rejectionReason |-> OrElse(rejectionReason, Null),
                           verificationDate |-> Now,
                           updatedAt |-> Now])
         IN /\ users' = IF approved
                          THEN MemUpdateUser(users, process.userId,
                                             [isVerified |-> TRUE])
                          ELSE users
            /\ registrationProcesses' = updated
            /\ lastCall' = Returned("verifyRegistrationProcess", registrationProcessId,
                                    updated[registrationProcessId])
            /\ UNCHANGED <<grantStore, calls,
                           applicantTypes, currentApplicantTypeId,
                           currentRegistrationProcessId, documentStore>>

\* storage.createVerificationDocument(insertVerificationDocument)
createVerificationDocument(insertVerificationDocument) ==
  /\ LET id == currentVerificationDocumentId
         verificationDocument ==
           MemCreateVerificationDocument(id, insertVerificationDocument)
     IN /\ currentVerificationDocumentId' = id + 1
        /\ verificationDocuments' = (id :> verificationDocument) @@ verificationDocuments
        /\ lastCall' = Returned("createVerificationDocument", 0, verificationDocument)
  /\ UNCHANGED <<grantStore, calls,
                 users, applicantTypes, registrationProcesses,
                 currentApplicantTypeId, currentRegistrationProcessId>>

\* storage.updateVerificationDocument(id, verificationDocumentUpdate):
\* undefined is returned for the id of no document
updateVerificationDocument(id, verificationDocumentUpdate) ==
  /\ verificationDocuments' =
       MemUpdateVerificationDocument(verificationDocuments, id,
                                     verificationDocumentUpdate)
  /\ lastCall' = Returned("updateVerificationDocument", id,
                          IF id \in DOMAIN verificationDocuments
                            THEN verificationDocuments'[id] ELSE Undefined)
  /\ UNCHANGED <<grantStore, calls,
                 users, applicantTypes, registrationProcesses,
                 currentApplicantTypeId, currentRegistrationProcessId,
                 currentVerificationDocumentId>>

\* validateDocumentWithAI, lines 166-183, for a stored document: the status
\* of the score of aiVerificationResult and the update of the document
storeVerificationResult(documentId, aiVerificationResult) ==
  LET verificationStatus == ScoreStatus(aiVerificationResult.score)
      updated == MemUpdateVerificationDocument(verificationDocuments,
                   documentId,
                   [aiVerified |-> TRUE,
                    aiVerificationResult |-> aiVerificationResult,
                    aiVerificationScore |-> aiVerificationResult.score,
                    verificationStatus |->
                      IF aiVerificationResult.score >= ApprovedScore
                        THEN DOCUMENT_VERIFICATION_STATUS.APPROVED
                        ELSE verificationStatus])
  IN /\ verificationDocuments' = updated
     /\ lastCall' = Returned("validateDocumentWithAI", documentId,
                             updated[documentId])
     /\ UNCHANGED <<grantStore, calls,
                    users, applicantTypes, registrationProcesses,
                    currentApplicantTypeId, currentRegistrationProcessId,
                    currentVerificationDocumentId>>

\* validateDocumentWithAI(documentId)
validateDocumentWithAI(documentId) ==
  IF documentId \notin DOMAIN verificationDocuments
    THEN /\ lastCall' = Threw("validateDocumentWithAI", documentId,
                              "Document not found")
         /\ UNCHANGED <<store, calls>>
    ELSE LET document == verificationDocuments[documentId]
         IN IF ~RequirementsIsArray(document.documentType)
              THEN /\ lastCall' = Threw("validateDocumentWithAI", documentId,
                                        "requirements.forEach is not a function")
                   /\ UNCHANGED <<store, calls>>
              ELSE storeVerificationResult(documentId,
                     performAIDocumentVerification(document.filePath,
                                                   document.documentType))

\* The routes.  req is the request without its body and parameters: its
\* property user is the id of the user of the session, and is not set when
\* the request is not authenticated; error is the message of the response
\* when its status is not 2xx.

\* req.isAuthenticated()
isAuthenticated(req) == "user" \in DOMAIN req /\ req.user \in DOMAIN users

\* ['administrator', 'reviewer'].includes(req.user.role)
MayEvaluate(req) == users[req.user].role \in {"administrator", "reviewer"}

\* insertApplicationSchema.parse: program_id and summary are not null
ApplicationBodyIsValid(body) == {"programId", "summary"} \subseteq DOMAIN body

\* insertEvaluationSchema.parse: decision is one of the enum when present
EvaluationBodyIsValid(body) ==
  "decision" \in DOMAIN body => body.decision \in {"preporuceno", "odbijeno", "revisit"}

\* POST /api/applications
postApplication(req, body) ==
  IF ~isAuthenticated(req)
    THEN /\ lastCall' = Threw("POST /api/applications", 0, "Unauthorized")
         /\ UNCHANGED <<store, calls>>
  ELSE IF ~ApplicationBodyIsValid(body)
    THEN /\ lastCall' = Threw("POST /api/applications", 0, "Invalid application data")
         /\ UNCHANGED <<store, calls>>
  ELSE LET id == currentApplicationId
           application ==
             MemCreateApplication(id, Spread(body, [applicantId |-> users[req.user].id]))
       IN /\ currentApplicationId' = id + 1
          /\ applications' = (id :> application) @@ applications
          /\ lastCall' = Returned("POST /api/applications", 0, application)
          /\ UNCHANGED <<users, applicantTypes, registrationProcesses,
                         currentApplicantTypeId, currentRegistrationProcessId,
                         documentStore, programs, evaluations, currentProgramId,
                         currentEvaluationId, calls>>

\* the answer of POST /api/applications/:id/ai-evaluation with the storage
\* left as it is
answerAIEvaluation(req, applicationId) ==
  IF ~isAuthenticated(req)
    THEN Threw("POST /api/applications/:id/ai-evaluation", applicationId, "Unauthorized")
  ELSE IF ~MayEvaluate(req)
    THEN Threw("POST /api/applications/:id/ai-evaluation", applicationId, "Forbidden")
  ELSE IF applicationId \notin DOMAIN applications
    THEN Threw("POST /api/applications/:id/ai-evaluation", applicationId,
               "Application not found")
  ELSE IF applications[applicationId].programId \notin DOMAIN programs
    THEN Threw("POST /api/applications/:id/ai-evaluation", applicationId,
               "Program not found")
  ELSE IF applications[applicationId].applicantId \notin DOMAIN users
    THEN Threw("POST /api/applications/:id/ai-evaluation", applicationId,
               "Applicant not found")
  ELSE LET application == applications[applicationId]
       IN Returned("POST /api/applications/:id/ai-evaluation", applicationId,
                   generateAIEvaluation(application, programs[application.programId],
                                        users[application.applicantId]))

postAIEvaluationRecording(req, applicationId) ==
  LET answer == answerAIEvaluation(req, applicationId)
  IN /\ lastCall' = answer
     /\ IF answer.error # ""
          THEN UNCHANGED <<store, calls>>
          ELSE LET id == currentEvaluationId
               IN /\ currentEvaluationId' = id + 1
                  /\ evaluations' =
                       (id :> MemCreateEvaluation(id,
                                 [applicationId |-> applicationId,
                                  evaluatedBy |-> users[req.user].id,
                                  score |-> answer.result.score,
                                  decision |-> answer.result.decision,
                                  comment |-> answer.result.comment]))
                         @@ evaluations
                  /\ applications' =
                       MemUpdateApplication(applications, applicationId,
                                            [status |-> answer.result.decision])
                  /\ UNCHANGED <<users, applicantTypes, registrationProcesses,
                                 currentApplicantTypeId, currentRegistrationProcessId,
                                 documentStore, programs, currentProgramId,
                                 currentApplicationId, calls>>

\* POST /api/applications/:id/ai-evaluation
postAIEvaluation(req, applicationId) ==
  /\ lastCall' = answerAIEvaluation(req, applicationId)
  /\ UNCHANGED <<store, calls>>

\* POST /api/applications/:id/evaluations
postEvaluation(req, applicationId, body) ==
  IF ~isAuthenticated(req)
    THEN /\ lastCall' = Threw("POST /api/applications/:id/evaluations", applicationId,
                              "Unauthorized")
         /\ UNCHANGED <<store, calls>>
  ELSE IF ~MayEvaluate(req)
    THEN /\ lastCall' = Threw("POST /api/applications/:id/evaluations", applicationId,
                              "Forbidden")
         /\ UNCHANGED <<store, calls>>
  ELSE IF applicationId \notin DOMAIN applications
    THEN /\ lastCall' = Threw("POST /api/applications/:id/evaluations", applicationId,
                              "Application not found")
         /\ UNCHANGED <<store, calls>>
  ELSE IF ~EvaluationBodyIsValid(body)
    THEN /\ lastCall' = Threw("POST /api/applications/:id/evaluations", applicationId,
                              "Invalid evaluation data")
         /\ UNCHANGED <<store, calls>>
  ELSE LET id == currentEvaluationId
           evaluation ==
             MemCreateEvaluation(id,
               Spread(body, [applicationId |-> applicationId,
                             evaluatedBy |-> users[req.user].id]))
       IN /\ currentEvaluationId' = id + 1
          /\ evaluations' = (id :> evaluation) @@ evaluations
          /\ applications' =
               IF "decision" \in DOMAIN body
                 THEN MemUpdateApplication(applications, applicationId,
                                           [status |-> body.decision])
                 ELSE applications
          /\ lastCall' = Returned("POST /api/applications/:id/evaluations",
                                  applicationId, evaluation)
          /\ UNCHANGED <<users, applicantTypes, registrationProcesses,
                         currentApplicantTypeId, currentRegistrationProcessId,
                         documentStore, programs, currentProgramId,
                         currentApplicationId, calls>>

\* checkDocumentVerificationStatus(registrationProcessId)
checkDocumentVerificationStatus(registrationProcessId) ==
  /\ UNCHANGED <<store, calls>>
  /\ IF registrationProcessId \notin DOMAIN registrationProcesses
       THEN lastCall' = Threw("checkDocumentVerificationStatus",
                              registrationProcessId,
                              "Registration process not found")
     ELSE LET process == registrationProcesses[registrationProcessId]
          IN IF process.applicantTypeId \notin DOMAIN applicantTypes
               THEN lastCall' = Threw("checkDocumentVerificationStatus",
                                      registrationProcessId,
                                      "Applicant type not found")
               ELSE lastCall' =
                      Returned("checkDocumentVerificationStatus",
                               registrationProcessId,
                               DocumentVerificationStatus(
                                 DocumentsOf(verificationDocuments,
                                             registrationProcessId, 1),
                                 RequiredDocsOf(applicantTypes[process.applicantTypeId])))

\* The calls on stored entities

\* create for the stored user nina_kultura and the seeded type ORGANIZATION
Create == createRegistrationProcess(2, 1)

Advance ==
  \E id \in StoredProcessIds, newStep \in NewStepInputs :
    \E completedStep \in CompletedStepInputs(id) :
      updateRegistrationStep(id, newStep, completedStep)

Finalize ==
  \E id \in StoredProcessIds, adminId \in AdminIdInputs, approved \in BOOLEAN,
     rejectionReason \in RejectionReasonInputs :
    verifyRegistrationProcess(id, adminId, approved, rejectionReason)

\* The program: applicant types come from the seed only (no route and no
\* function of the engine calls storage.createApplicantType).
Next == Create \/ Advance \/ Finalize

Spec == Init /\ [][Next]_vars

\* The storage interface with createApplicantType open to a caller, to
\* follow the step count of types whose name is one of APPLICANT_TYPE.

CreateApplicantType ==
  \E name \in ApplicantTypeNameInputs :
    createApplicantType([name |-> name,
                         registrationSteps |-> REGISTRATION_STEPS[name]])

\* create for a seeded type or a type created after the seed
CreateOfType ==
  \E applicantTypeId \in StoredApplicantTypeIds \ {2, 3} :
    createRegistrationProcess(2, applicantTypeId)

NextTypes == CreateApplicantType \/ CreateOfType \/ Advance

SpecTypes == Init /\ [][NextTypes]_vars

\* The calls of the engine on processes and documents together, each also
\* with the id of no stored entity.

\* create for a stored user or the id of no user, for a stored type or the
\* id of no type
CallCreate ==
  \E userId \in UserIdInputs, applicantTypeId \in {1, currentApplicantTypeId} :
    createRegistrationProcess(userId, applicantTypeId)

\* advance that moves currentStep and completes no step
CallAdvance ==
  \E id \in ProcessIdInputs : updateRegistrationStep(id, 1, Undefined)

\* finalize that gives no rejection reason
CallFinalize ==
  \E id \in ProcessIdInputs, adminId \in AdminIdInputs, approved \in BOOLEAN :
    verifyRegistrationProcess(id, adminId, approved, Undefined)

Upload ==
  /\ currentVerificationDocumentId <= MaxDocs
  /\ \E registrationProcessId \in LatestProcess, documentType \in DocumentTypeInputs :
       createVerificationDocument(
         [userId |-> 2, registrationProcessId |-> registrationProcessId,
          documentType |-> documentType, filePath |-> "uploads/document"])

CallValidate ==
  \E documentId \in DocumentIdInputs : validateDocumentWithAI(documentId)

CallCheck ==
  \E id \in ProcessIdInputs : checkDocumentVerificationStatus(id)

NextCalls ==
  CallCreate \/ CallAdvance \/ CallFinalize \/ Upload \/ CallValidate \/ CallCheck

SpecCalls == Init /\ [][NextCalls]_vars

\* The document check of a process whose applicant type has required
\* documents: the type is created with a name of APPLICANT_TYPE, documents
\* are uploaded for the process and approved by the AI verification.

UploadRequired ==
  /\ currentVerificationDocumentId <= MaxUploads
  /\ \E registrationProcessId \in StoredProcessIds, documentType \in DocumentTypeInputs :
       createVerificationDocument(
         [userId |-> 2, registrationProcessId |-> registrationProcessId,
          documentType |-> documentType, filePath |-> "uploads/document"])

NextUploads ==
  CreateApplicantType \/ CreateOfType \/ UploadRequired \/ CallValidate \/ CallCheck

SpecUploads == Init /\ [][NextUploads]_vars

\* The document check over documents of every status: an uploaded document
\* is given its status through the storage interface (the review of an
\* administrator) before the next one is uploaded.

CreateIndividualType ==
  createApplicantType([name |-> APPLICANT_TYPE.INDIVIDUAL,
                       registrationSteps |->
                         REGISTRATION_STEPS[APPLICANT_TYPE.INDIVIDUAL]])

UploadReviewed ==
  /\ currentVerificationDocumentId <= MaxReviewDocs
  /\ \E registrationProcessId \in StoredProcessIds, documentType \in ReviewedTypeInputs :
       createVerificationDocument(
         [userId |-> 2, registrationProcessId |-> registrationProcessId,
          documentType |-> documentType, filePath |-> "uploads/document"])

Review ==
  \E id \in LatestDocument, status \in DocumentStatusInputs :
    updateVerificationDocument(id, [verificationStatus |-> status])

CheckStored ==
  \E id \in StoredProcessIds : checkDocumentVerificationStatus(id)

NextDocs ==
  CreateIndividualType \/ CreateOfType \/ UploadReviewed \/ Review \/ CheckStored

SpecDocs == Init /\ [][NextDocs]_vars

\* The AI verification with a scorer of any score: the stand-in
\* performAIDocumentVerification gives 87 to every document, so the status
\* derivation of validateDocumentWithAI is followed with the score of the
\* scorer's answer drawn from ScoreInputs.  An administrator may reject a
\* document through the storage interface.  A document is verified, and
\* rejected, before the next one is uploaded.

ValidateScored ==
  \E documentId \in LatestDocument, score \in ScoreInputs :
    LET document == verificationDocuments[documentId]
        answer == performAIDocumentVerification(document.filePath,
                                                document.documentType)
    IN storeVerificationResult(documentId, [answer EXCEPT !.score = score])

Reject ==
  \E id \in LatestDocument :
    updateVerificationDocument(id,
      [verificationStatus |-> DOCUMENT_VERIFICATION_STATUS.REJECTED])

NextScores == Create \/ Upload \/ ValidateScored \/ Reject

SpecScores == Init /\ [][NextScores]_vars

\* The two functions of the engine that read and write no table, called
\* on their own: a behaviour is one call, since no call of them leaves
\* anything for the next.

CallValidateEmail ==
  \E email \in EmailInputs, applicantType \in EmailTypeInputs :
    /\ lastCall = NoCall
    /\ lastCall' = Returned("validateEmailForApplicantType",
                            [email |-> email, applicantType |-> applicantType],
                            validateEmailForApplicantType(email, applicantType))
    /\ UNCHANGED <<store, calls>>

CallVerify ==
  \E documentType \in VerifiedTypeInputs :
    /\ lastCall = NoCall
    /\ lastCall' =
         IF RequirementsIsArray(documentType)
           THEN Returned("performAIDocumentVerification", documentType,
                         performAIDocumentVerification("uploads/document",
                                                       documentType))
           ELSE Threw("performAIDocumentVerification", documentType,
                      "requirements.forEach is not a function")
    /\ UNCHANGED <<store, calls>>

NextRules == CallValidateEmail \/ CallVerify

SpecRules == Init /\ [][NextRules]_vars

\* Advance calls that overlap.  A process is created and advanced by calls
\* that run alone, each completing the next open step; then the callers
\* make one advance call each on the process created last, completing no
\* step or one of its next two open steps.  The callers are
\* interchangeable: caller c makes its call after the callers before it.

NoCallMade == \A c \in Callers : calls[c] = Idle

CreateAlone == NoCallMade /\ createRegistrationProcess(2, 1)

AdvanceAlone ==
  /\ NoCallMade
  /\ \E id \in LatestProcess :
       \E completedStep \in OpenSteps(registrationProcesses[id], 1) :
         updateRegistrationStep(id, 1, completedStep)

ReadAdvance ==
  \E c \in Callers, id \in LatestProcess :
    /\ \A d \in Callers : d < c => calls[d] # Idle
    /\ \E completedStep \in {Undefined} \cup OpenSteps(registrationProcesses[id], 2) :
         readRegistrationStep(c, id, 1, completedStep)

WriteAdvance == \E c \in Callers : writeRegistrationStep(c)

NextRace == CreateAlone \/ AdvanceAlone \/ ReadAdvance \/ WriteAdvance

SpecRace == Init /\ [][NextRace]_vars

\* The routes of applications and evaluations.

PostApplication ==
  /\ currentApplicationId <= Len(SeedApplications) + MaxNewApplications
  /\ \E req \in ApplicantRequestInputs, body \in ApplicationBodyInputs :
       postApplication(req, body)

PostAIEvaluation ==
  \E req \in RequestInputs, applicationId \in ApplicationIdInputs :
    postAIEvaluation(req, applicationId)

PostEvaluation ==
  /\ currentEvaluationId <= Len(SeedEvaluations) + MaxNewEvaluations
  /\ \E req \in RequestInputs, applicationId \in ApplicationIdInputs,
        body \in EvaluationBodyInputs :
       postEvaluation(req, applicationId, body)

NextGrants == PostApplication \/ PostAIEvaluation \/ PostEvaluation

SpecGrants == Init /\ [][NextGrants]_vars

\* The scorer called on its own, for the seeded applicant nina_kultura: a
\* behaviour is one call.

CallScorer ==
  \E application \in ApplicationInputs, program \in ProgramInputs :
    /\ lastCall = NoCall
    /\ lastCall' = Returned("generateAIEvaluation",
                            [application |-> application, program |-> program],
                            generateAIEvaluation(application, program, SeedUsers[2]))
    /\ UNCHANGED <<store, calls>>

NextScorer == CallScorer

SpecScorer == Init /\ [][NextScorer]_vars

----------------------------------------------------------------------------
(* Properties of the registration state machine *)

StatusOf(process) == Get(process, "status")

CompletedStepsOf(process) ==
  IF "completedSteps" \in DOMAIN process THEN process.completedSteps ELSE <<>>

\* the step just taken is a call of op that returned, given the id arg
JustReturned(op, arg) ==
  /\ lastCall'.op = op
  /\ lastCall'.arg = arg
  /\ lastCall'.error = ""

TerminalStatuses == {REGISTRATION_STATUS.VERIFIED, REGISTRATION_STATUS.REJECTED}

\* C1: verified and rejected are terminal: an advance call on a process
\* whose status is verified or rejected leaves the status as it is.
C1_TerminalStatusKept ==
  [][\A id \in DOMAIN registrationProcesses :
       (/\ JustReturned("updateRegistrationStep", id)
        /\ StatusOf(registrationProcesses[id]) \in TerminalStatuses)
       => StatusOf(registrationProcesses'[id]) = StatusOf(registrationProcesses[id])]_vars

\* C2: after every advance call the status of the process is
\* pending_verification if and only if completedSteps has at least
\* totalSteps elements, and incomplete otherwise.
C2_PendingIffAllStepsCompleted ==
  (lastCall.op = "updateRegistrationStep" /\ lastCall.error = "")
  => LET process == registrationProcesses[lastCall.arg]
         enough == Len(process.completedSteps) >= process.totalSteps
     IN /\ (process.status = "pending_verification") <=> enough
        /\ (process.status = "incomplete") <=> ~enough
        /\ lastCall.result = process

\* an advance call has just brought the process to exactly totalSteps
\* completed steps, and its status is pending_verification
C2_Witness ==
  /\ lastCall.op = "updateRegistrationStep" /\ lastCall.error = ""
  /\ LET process == registrationProcesses[lastCall.arg]
     IN /\ Len(process.completedSteps) = process.totalSteps
        /\ process.status = "pending_verification"

\* C3: an advance call on a process whose status is pending_verification
\* leaves it pending_verification, and no advance call removes an element
\* of completedSteps.
C3_PendingStaysPending ==
  [][\A id \in DOMAIN registrationProcesses :
       JustReturned("updateRegistrationStep", id)
       => /\ Elems(CompletedStepsOf(registrationProcesses[id]))
               \subseteq Elems(CompletedStepsOf(registrationProcesses'[id]))
          /\ StatusOf(registrationProcesses[id]) = "pending_verification"
               => StatusOf(registrationProcesses'[id]) = "pending_verification"]_vars

\* an advance call has completed one step more on a process that was
\* pending_verification already
C3_Witness ==
  /\ lastCall.op = "updateRegistrationStep" /\ lastCall.error = ""
  /\ LET process == registrationProcesses[lastCall.arg]
     IN /\ Len(process.completedSteps) > process.totalSteps
        /\ process.status = "pending_verification"

\* the step names an advance call can be given
AnyStepName == Elems(StepAlphabet) \cup {Undefined, ""}

\* C4: completing a step twice gives the completedSteps of completing it
\* once, and completedSteps holds no step name twice: its length is its
\* number of distinct elements.
C4_AdvanceIdempotent ==
  \A id \in DOMAIN registrationProcesses : \A step \in AnyStepName :
    LET process == registrationProcesses[id]
        once == NewCompletedSteps(process, step)
        twice == NewCompletedSteps(Spread(process, [completedSteps |-> once]), step)
    IN /\ twice = once
       /\ Len(once) = Cardinality(Elems(once))
       /\ Len(CompletedStepsOf(process)) = Cardinality(Elems(CompletedStepsOf(process)))

\* an advance call has returned on a process with two completed steps
C4_Witness ==
  /\ lastCall.op = "updateRegistrationStep" /\ lastCall.error = ""
  /\ Len(registrationProcesses[lastCall.arg].completedSteps) = 2
  /\ lastCall.result.completedSteps = registrationProcesses[lastCall.arg].completedSteps

\* C5: currentStep of every process is at most its totalSteps.
C5_CurrentStepAtMostTotal ==
  \A id \in DOMAIN registrationProcesses :
    LET process == registrationProcesses[id]
    IN "currentStep" \in DOMAIN process => process.currentStep <= process.totalSteps

\* the finalize calls, with their arguments, that the step just taken can
\* be: none unless the step is a finalize call on a stored process
FinalizeCalls ==
  IF lastCall'.op = "verifyRegistrationProcess" /\ lastCall'.arg \in StoredProcessIds
    THEN [id : {lastCall'.arg}, adminId : AdminIdInputs, approved : BOOLEAN,
          rejectionReason : RejectionReasonInputs]
    ELSE {}

\* C6 as stated: finalize on a stored process succeeds from any state and
\* leaves status verified when approved, and rejected with rejectionReason
\* equal to the given reason (null when none is given) otherwise.
C6_FinalizeStoresGivenReason ==
  [][\A c \in FinalizeCalls :
       verifyRegistrationProcess(c.id, c.adminId, c.approved, c.rejectionReason)
       => LET process == registrationProcesses'[c.id]
          IN /\ lastCall'.error = ""
             /\ c.approved => process.status = "verified"
             /\ ~c.approved =>
                  /\ process.status = "rejected"
                  /\ process.rejectionReason =
                       IF c.rejectionReason = Undefined THEN Null
                       ELSE c.rejectionReason]_vars

\* C6 amended: finalize on a stored process succeeds whatever the status
\* of the process is (none, incomplete, pending_verification, verified or
\* rejected) and leaves status verified when approved, and rejected
\* otherwise; the stored rejectionReason is the given reason when that is a
\* non-empty string and null when the reason is absent or empty.
C6_FinalizeFromAnyState ==
  [][\A c \in FinalizeCalls :
       verifyRegistrationProcess(c.id, c.adminId, c.approved, c.rejectionReason)
       => LET process == registrationProcesses'[c.id]
          IN /\ lastCall'.error = ""
             /\ lastCall'.result = process
             /\ c.approved => process.status = "verified"
             /\ ~c.approved => process.status = "rejected"
             /\ process.rejectionReason =
                  IF c.rejectionReason \in {Undefined, ""} THEN Null
                  ELSE c.rejectionReason]_vars

\* a finalize call has rejected, with a reason, a process that had
\* completed only some of its steps
C6_Witness ==
  /\ lastCall.op = "verifyRegistrationProcess" /\ lastCall.error = ""
  /\ LET process == registrationProcesses[lastCall.arg]
     IN /\ process.status = "rejected"
        /\ process.rejectionReason = "incomplete documentation"
        /\ Len(CompletedStepsOf(process)) \in 1..(process.totalSteps - 1)

IsVerifiedUser(table, userId) ==
  /\ userId \in DOMAIN table
  /\ "isVerified" \in DOMAIN table[userId]
  /\ table[userId].isVerified

\* C7: finalize with approved = true sets isVerified of the user that owns
\* the process (when that user is stored) and changes no other user;
\* finalize with approved = false leaves the users table as it is.
C7_ApprovalVerifiesOwner ==
  [][\A c \in FinalizeCalls :
       verifyRegistrationProcess(c.id, c.adminId, c.approved, c.rejectionReason)
       => LET owner == registrationProcesses[c.id].userId
          IN IF c.approved
               THEN /\ owner \in DOMAIN users => IsVerifiedUser(users', owner)
                    /\ DOMAIN users' = DOMAIN users
                    /\ \A u \in DOMAIN users \ {owner} : users'[u] = users[u]
               ELSE users' = users]_vars

\* a finalize call has approved a process and its owner is flagged verified
C7_Witness ==
  /\ lastCall.op = "verifyRegistrationProcess" /\ lastCall.error = ""
  /\ registrationProcesses[lastCall.arg].status = "verified"
  /\ IsVerifiedUser(users, registrationProcesses[lastCall.arg].userId)

IsFreshProcess(process) ==
  /\ "currentStep" \in DOMAIN process /\ process.currentStep = 1
  /\ "completedSteps" \in DOMAIN process /\ process.completedSteps = <<>>
  /\ "status" \in DOMAIN process /\ process.status = "incomplete"

\* C8: the process returned by create has currentStep = 1, completedSteps
\* empty and status = incomplete, and so has the stored process.
C8_CreatedProcessIsFresh ==
  (lastCall.op = "createRegistrationProcess" /\ lastCall.error = "")
  => /\ IsFreshProcess(lastCall.result)
     /\ IsFreshProcess(registrationProcesses[lastCall.result.id])

\* C9: totalSteps of every process is the number of registrationSteps of
\* the applicant type record it was created for (a type record never
\* changes after its creation).
C9_TotalStepsOfTypeRecord ==
  \A id \in DOMAIN registrationProcesses :
    LET process == registrationProcesses[id]
    IN process.totalSteps = Len(applicantTypes[process.applicantTypeId].registrationSteps)

\* C10: a call that threw has changed no table and no id counter, and a
\* call given the id of no stored entity throws: create for an applicant
\* type id, advance, finalize and the document check for a process id, the
\* AI verification for a document id.
C10_MissingEntityFails ==
  [][/\ lastCall'.error # "" => UNCHANGED store
     /\ (/\ lastCall'.op = "createRegistrationProcess"
         /\ lastCall'.arg \notin DOMAIN applicantTypes) => lastCall'.error # ""
     /\ (/\ lastCall'.op \in {"updateRegistrationStep", "verifyRegistrationProcess",
                               "checkDocumentVerificationStatus"}
         /\ lastCall'.arg \notin DOMAIN registrationProcesses) => lastCall'.error # ""
     /\ (/\ lastCall'.op = "validateDocumentWithAI"
         /\ lastCall'.arg \notin DOMAIN verificationDocuments) => lastCall'.error # ""]_vars

\* a finalize call on the id of no process has thrown, with a process and
\* a document stored and no user flagged verified
C10_Witness ==
  /\ lastCall.op = "verifyRegistrationProcess"
  /\ lastCall.error = "Registration process not found"
  /\ DOMAIN registrationProcesses # {}
  /\ DOMAIN verificationDocuments # {}
  /\ \A u \in DOMAIN users : ~IsVerifiedUser(users, u)

----------------------------------------------------------------------------
(* Properties of the document check *)

\* the document check has just returned for a stored process
CheckReturned ==
  /\ lastCall.op = "checkDocumentVerificationStatus"
  /\ lastCall.error = ""

\* the required document types of the applicant type of process id
RequiredTypesOf(id) ==
  LET name == applicantTypes[registrationProcesses[id].applicantTypeId].name
  IN IF name \in DOMAIN REQUIRED_DOCUMENTS THEN Elems(REQUIRED_DOCUMENTS[name]) ELSE {}

\* the stored documents of process id
StoredDocumentsOf(id) ==
  {verificationDocuments[d] : d \in {e \in DOMAIN verificationDocuments :
      verificationDocuments[e].registrationProcessId = id}}

\* the document types of process id that have a document of one of the statuses
TypesWithStatus(id, statuses) ==
  {doc.documentType : doc \in {d \in StoredDocumentsOf(id) :
      Get(d, "verificationStatus") \in statuses}}

\* C11: allVerified is false whenever some required document type of the
\* applicant type has no approved document, even if other types have
\* several approved documents or documents of other types are approved.
C11_AllVerifiedNeedsEveryRequiredType ==
  CheckReturned
  => ((RequiredTypesOf(lastCall.arg) \ TypesWithStatus(lastCall.arg, {"approved"}) # {})
      => lastCall.result.allVerified = FALSE)

\* C12: allVerified is true exactly when the number of distinct document
\* types that have an approved document equals the number of required
\* document types.
C12_AllVerifiedCountsDistinctTypes ==
  CheckReturned
  => (lastCall.result.allVerified
      <=> Cardinality(TypesWithStatus(lastCall.arg, {"approved"}))
            = Cardinality(RequiredTypesOf(lastCall.arg)))

\* the number of stored documents of process id that have one of the statuses
CountWithStatus(id, statuses) ==
  Cardinality({d \in DOMAIN verificationDocuments :
     /\ verificationDocuments[d].registrationProcessId = id
     /\ Get(verificationDocuments[d], "verificationStatus") \in statuses})

\* arr holds its elements in the order of list, each once
InOrderOf(arr, list) ==
  \E pos \in [1..Len(arr) -> 1..Len(list)] :
    /\ \A i \in 1..Len(arr) : arr[i] = list[pos[i]]
    /\ \A i, j \in 1..Len(arr) : i < j => pos[i] < pos[j]

C14_RejectedAreRejectedOrResubmission ==
  CheckReturned
  => LET rejectedDocuments == lastCall.result.rejectedDocuments
         refused == {"rejected", "requires_resubmission"}
     IN /\ Elems(rejectedDocuments) = TypesWithStatus(lastCall.arg, refused)
        /\ Len(rejectedDocuments) = CountWithStatus(lastCall.arg, refused)

\* the check has answered for a process with an upload that requires
\* resubmission and an approved or pending upload
C14_Witness ==
  /\ CheckReturned
  /\ CountWithStatus(lastCall.arg, {"requires_resubmission"}) = 1
  /\ CountWithStatus(lastCall.arg, {"approved", "pending"}) = 1
  /\ Len(lastCall.result.rejectedDocuments) = 1

----------------------------------------------------------------------------
(* Properties of the AI verification of a document *)

\* the AI verification has just returned for a stored document
ValidateReturned ==
  /\ lastCall.op = "validateDocumentWithAI"
  /\ lastCall.error = ""

\* C15: the status derived from a verification score s in 0..100 is
\* approved when s >= 85, pending when 60 <= s < 85 and
\* requires_resubmission when s < 60; the stored verificationStatus of the
\* document is that status (and the stored document is the one returned).
C15_StatusOfScore ==
  ValidateReturned
  => LET document == verificationDocuments[lastCall.arg]
         s == document.aiVerificationScore
     IN /\ s \in 0..100
        /\ s >= 85 => document.verificationStatus = "approved"
        /\ (60 <= s /\ s < 85) => document.verificationStatus = "pending"
        /\ s < 60 => document.verificationStatus = "requires_resubmission"
        /\ s = document.aiVerificationResult.score
        /\ lastCall.result = document

\* a document scored 60, the lower threshold, has been stored as pending
C15_Witness ==
  /\ ValidateReturned
  /\ verificationDocuments[lastCall.arg].aiVerificationScore = 60
  /\ verificationDocuments[lastCall.arg].verificationStatus = "pending"

\* C16: the AI verification never sets verificationStatus to rejected:
\* for every score, and whatever status the document had, the status it
\* writes is approved, pending or requires_resubmission, and it writes to
\* no other document.
C16_NeverRejectsAutomatically ==
  [][(lastCall'.op = "validateDocumentWithAI" /\ lastCall'.error = "")
     => /\ verificationDocuments'[lastCall'.arg].verificationStatus \in
             {"approved", "pending", "requires_resubmission"}
        /\ \A d \in DOMAIN verificationDocuments \ {lastCall'.arg} :
             verificationDocuments'[d] = verificationDocuments[d]]_vars

\* a document scored 0 has been stored as requires_resubmission
C16_Witness ==
  /\ ValidateReturned
  /\ verificationDocuments[lastCall.arg].aiVerificationScore = 0
  /\ verificationDocuments[lastCall.arg].verificationStatus = "requires_resubmission"

\* C17: the verification never fails: for every document type, also one
\* that is not in the verification requirements, it returns a result with
\* a score in 0..100; for an unknown type extractedFields is empty, and for
\* a known type its keys are exactly the required fields of the type.
C17_VerifyNeverFails ==
  lastCall.op = "performAIDocumentVerification"
  => /\ lastCall.error = ""
     /\ lastCall.result.score \in 0..100
     /\ DOMAIN lastCall.result.extractedFields =
          IF lastCall.arg \in DOMAIN VERIFICATION_REQUIREMENTS
            THEN Elems(VERIFICATION_REQUIREMENTS[lastCall.arg])
            ELSE {}

----------------------------------------------------------------------------
(* Properties of the email rule *)

\* the email rule has just answered for the applicant type name, given an
\* email with a non-empty domain part
AdmitAnswered(applicantTypes_) ==
  /\ lastCall.op = "validateEmailForApplicantType"
  /\ lastCall.arg.applicantType \in applicantTypes_
  /\ Len(lastCall.arg.email) >= 2
  /\ lastCall.arg.email[2] # <<>>

PersonalDomains ==
  {<<"gmail", "com">>, <<"yahoo", "com">>, <<"hotmail", "com">>,
   <<"outlook", "com">>, <<"gmail", "ba">>, <<"yahoo", "ba">>}

OfficialSuffixes == {"org", "ngo", "ba", "net", "com"}

\* C18: for ORGANIZATION an email with a domain part is valid if and only
\* if its lower-cased domain is not a disallowed one and ends with one of
\* .org, .ngo, .ba, .net, .com; a disallowed domain is rejected with the
\* message of the personal domains although its suffix is an allowed one.
C18_OrganizationDomainRule ==
  AdmitAnswered({"organization"})
  => LET domain == toLowerCase(lastCall.arg.email[2])
         official == Len(domain) >= 2 /\ domain[Len(domain)] \in OfficialSuffixes
     IN /\ lastCall.result.valid <=> (domain \notin PersonalDomains /\ official)
        /\ domain \in PersonalDomains =>
             lastCall.result.message =
               "Organizations cannot use personal email domains like gmail.com, yahoo.com, etc."
        /\ (domain \notin PersonalDomains /\ ~official) =>
             lastCall.result.message =
               "Organizations should use official domain names ending with .org, .ngo, .ba, .net, or .com"

\* an organization has been refused for info@GMAIL.com with the message
\* of the personal domains
C18_Witness ==
  /\ AdmitAnswered({"organization"})
  /\ lastCall.arg.email = << <<"info">>, <<"GMAIL", "com">> >>
  /\ lastCall.result =
       [valid |-> FALSE,
        message |-> "Organizations cannot use personal email domains like gmail.com, yahoo.com, etc."]

\* C19: for CORPORATION an email with a domain part is invalid if and only
\* if its lower-cased domain is a disallowed one; no suffix is required of
\* any other domain.
C19_CorporationDomainRule ==
  AdmitAnswered({"corporation"})
  => (lastCall.result.valid
      <=> toLowerCase(lastCall.arg.email[2]) \notin PersonalDomains)

\* a corporation has been admitted with a domain of no official suffix,
\* info@udruzenje.io
C19_Witness ==
  /\ AdmitAnswered({"corporation"})
  /\ lastCall.arg.email = << <<"info">>, <<"udruzenje", "io">> >>
  /\ lastCall.result = [valid |-> TRUE]

\* C20: for INDIVIDUAL and for an unknown applicant type name no domain is
\* inspected: every email with a non-empty domain part, the domains
\* disallowed for the other types among them, is valid.
C20_IndividualAndUnknownAdmitted ==
  AdmitAnswered(EmailTypeInputs \ {"organization", "corporation"})
  => lastCall.result = [valid |-> TRUE]

\* the seeded type name ORGANIZATION, which has no rules, has been admitted
\* with info@gmail.com
C20_Witness ==
  /\ AdmitAnswered({"ORGANIZATION"})
  /\ lastCall.arg.email = << <<"info">>, <<"gmail", "com">> >>
  /\ lastCall.result.valid

\* the email rule has just answered for an email without a domain part:
\* the empty string, a string without "@" or a string with nothing between
\* its first "@" and its end or its second "@"
AdmitAnsweredNoDomain ==
  /\ lastCall.op = "validateEmailForApplicantType"
  /\ (Len(lastCall.arg.email) < 2 \/ lastCall.arg.email[2] = <<>>)

\* C21 as stated: for every applicant type name the answer for an email
\* without a domain part, the empty string included, is valid = false
\* with the message "Invalid email format".
C21_NoDomainInvalidFormat ==
  AdmitAnsweredNoDomain
  => lastCall.result = [valid |-> FALSE, message |-> "Invalid email format"]

\* C21 amended: for every applicant type name the answer for an email
\* without a domain part is valid = false; the message is "Email is
\* required" for the empty string and "Invalid email format" for a string
\* without "@" and for a string ending in "@".
C21_NoDomainRefused ==
  AdmitAnsweredNoDomain
  => lastCall.result =
       [valid |-> FALSE,
        message |-> IF lastCall.arg.email = << <<>> >>
                      THEN "Email is required" ELSE "Invalid email format"]

\* info@ has been refused for an individual with "Invalid email format"
C21_Witness ==
  /\ AdmitAnsweredNoDomain
  /\ lastCall.arg.applicantType = "individual"
  /\ lastCall.arg.email = << <<"info">>, <<>> >>
  /\ lastCall.result = [valid |-> FALSE, message |-> "Invalid email format"]

----------------------------------------------------------------------------
(* Properties of the scorer *)

\* the scorer has just returned
Scored == lastCall.op = "generateAIEvaluation"

\* the row without the columns ks
Without(row, ks) == [k \in DOMAIN row \ ks |-> row[k]]

\* the answer of the scorer for the application without the columns ks
ScoredWithout(ks) ==
  generateAIEvaluation(Without(lastCall.arg.application, ks),
                       lastCall.arg.program, SeedUsers[2])

\* the answer differs from the answer other by points of score, by
\* strengths more strengths and by weaknesses more weaknesses
Adjusts(other, points, strengths, weaknesses) ==
  /\ lastCall.result.score = other.score + points
  /\ Len(lastCall.result.insights.strengths)
       = Len(other.insights.strengths) + strengths
  /\ Len(lastCall.result.insights.weaknesses)
       = Len(other.insights.weaknesses) + weaknesses

\* C22: budget rule: whenever budgetTotal > 0, with ratio = requestedAmount
\* / budgetTotal (requestedAmount = 0 included), the score gets +10 and one
\* strength when ratio < 0.1, -15 and one weakness when ratio > 0.3 and no
\* adjustment when 0.1 <= ratio <= 0.3; when budgetTotal is 0 the rule
\* adjusts nothing.  The adjustment is measured against the answer for the
\* application without a requested amount.
C22_BudgetRule ==
  (Scored /\ "requestedAmount" \in DOMAIN lastCall.arg.application)
  => LET requestedAmount == lastCall.arg.application.requestedAmount
         budgetTotal == lastCall.arg.program.budgetTotal
         other == ScoredWithout({"requestedAmount"})
     IN /\ budgetTotal = 0 => Adjusts(other, 0, 0, 0)
        /\ budgetTotal > 0 =>
             IF 10 * requestedAmount < budgetTotal THEN Adjusts(other, 10, 1, 0)
             ELSE IF 10 * requestedAmount > 3 * budgetTotal
               THEN Adjusts(other, 0 - 15, 0, 1)
             ELSE Adjusts(other, 0, 0, 0)

\* C23: description and organization rules: a description longer than 300
\* characters adds 5 and one strength, any other description (absent,
\* empty, of length <= 300) subtracts 5 and adds one weakness; a non-empty
\* organization adds 5 and one strength, an absent or empty one adds one
\* weakness and leaves the score.  The adjustments are measured against the
\* answer for the application without description and organization (which
\* has -5 and two weaknesses for them).  The two examples score 100,
\* recommended, and 50, refused.
C23_DescriptionAndOrganizationRules ==
  Scored
  => LET application == lastCall.arg.application
         program == lastCall.arg.program
         other == ScoredWithout({"description", "organization"})
         long == "description" \in DOMAIN application /\ application.description > 300
         named == "organization" \in DOMAIN application /\ application.organization # ""
         d == IF long THEN 1 ELSE 0
         o == IF named THEN 1 ELSE 0
     IN /\ Adjusts(other, 10 * d + 5 * o, d + o, 0 - d - o)
        /\ (/\ program.budgetTotal = 100000
            /\ Without(application, {"applicantId", "programId", "summary"}) =
                 [requestedAmount |-> 5000, description |-> 350,
                  organization |-> "X", projectDuration |-> 4])
           => lastCall.result.score = 100 /\ lastCall.result.decision = "preporuceno"
        /\ (/\ program.budgetTotal = 100000
            /\ Without(application, {"applicantId", "programId", "summary"}) =
                 [requestedAmount |-> 40000, description |-> 50,
                  projectDuration |-> 30])
           => lastCall.result.score = 50 /\ lastCall.result.decision = "odbijeno"

\* the first example has been scored 100, with four strengths
C23_Witness ==
  /\ Scored
  /\ lastCall.arg.program.budgetTotal = 100000
  /\ Without(lastCall.arg.application, {"applicantId", "programId", "summary"}) =
       [requestedAmount |-> 5000, description |-> 350,
        organization |-> "X", projectDuration |-> 4]
  /\ lastCall.result.score = 100
  /\ Len(lastCall.result.insights.strengths) = 4

\* C24: duration rule: for every application whose projectDuration is
\* present, a duration greater than 24 months subtracts 5 and adds one
\* weakness, a duration less than 6 months (0 included) adds 5 and one
\* strength, and a duration from 6 to 24 changes neither the score nor the
\* lists.  The adjustment is measured against the answer for the
\* application without a duration.
C24_DurationRule ==
  (Scored /\ "projectDuration" \in DOMAIN lastCall.arg.application)
  => LET projectDuration == lastCall.arg.application.projectDuration
         other == ScoredWithout({"projectDuration"})
     IN IF projectDuration > 24 THEN Adjusts(other, 0 - 5, 0, 1)
        ELSE IF projectDuration < 6 THEN Adjusts(other, 5, 1, 0)
        ELSE Adjusts(other, 0, 0, 0)

\* C25: the decision is determined by the score alone: recommended if and
\* only if score >= 80, refused if and only if score < 60, revisit if and
\* only if 60 <= score < 80, and the recommendation of the insights is the
\* one of that decision.
C25_DecisionOfScore ==
  Scored
  => LET score == lastCall.result.score
         decision == lastCall.result.decision
         recommendation == lastCall.result.insights.recommendation
     IN /\ decision = "preporuceno" <=> score >= 80
        /\ decision = "odbijeno" <=> score < 60
        /\ decision = "revisit" <=> (60 <= score /\ score < 80)
        /\ decision = "preporuceno" =>
             recommendation = "This application shows strong potential for success and alignment with program goals."
        /\ decision = "odbijeno" =>
             recommendation = "This application has several areas that need improvement before it can be recommended."
        /\ decision = "revisit" =>
             recommendation = "This application has potential but requires further discussion and possibly additional information."

\* an application has been scored 80, the threshold, and recommended
C25_Witness ==
  /\ Scored
  /\ lastCall.result.score = 80
  /\ lastCall.result.decision = "preporuceno"

\* C30: the scorer does not clamp, and yet for every application and
\* program the score is a multiple of 5 from 50 to 100, so it stays in
\* 0..100, and the decision refused is returned for the scores 50 and 55
\* only.
C30_ScoreRange ==
  Scored
  => /\ lastCall.result.score \in {50 + 5 * i : i \in 0..10}
     /\ lastCall.result.decision = "odbijeno" => lastCall.result.score \in {50, 55}

\* an application has been scored 55 and refused
C30_Witness ==
  /\ Scored
  /\ lastCall.result.score = 55
  /\ lastCall.result.decision = "odbijeno"

----------------------------------------------------------------------------
(* Properties across calls *)

\* C28: in every state reached by create, advance and finalize calls, a
\* user whose isVerified flag is true owns a registration process whose
\* status is verified.
C28_VerifiedUserOwnsVerifiedProcess ==
  \A u \in DOMAIN users :
    ("isVerified" \in DOMAIN users[u] /\ users[u].isVerified = TRUE)
    => \E id \in DOMAIN registrationProcesses :
         /\ registrationProcesses[id].userId = users[u].id
         /\ registrationProcesses[id].status = REGISTRATION_STATUS.VERIFIED

\* C29: the automatic verification does not override a human decision: a
\* document whose verificationStatus is rejected keeps that status when
\* validateDocumentWithAI has stored its result for it.
C29_RejectedStaysRejected ==
  [][(/\ lastCall'.op = "validateDocumentWithAI"
      /\ lastCall'.error = ""
      /\ "verificationStatus" \in DOMAIN verificationDocuments[lastCall'.arg]
      /\ verificationDocuments[lastCall'.arg].verificationStatus
           = DOCUMENT_VERIFICATION_STATUS.REJECTED)
     => verificationDocuments'[lastCall'.arg].verificationStatus
          = DOCUMENT_VERIFICATION_STATUS.REJECTED]_vars

\* the scoring route has just answered with a result
AIEvaluationReturned(call) ==
  call.op = "POST /api/applications/:id/ai-evaluation" /\ call.error = ""

\* C26: scoring is deterministic and free of side effects: a scoring call
\* leaves every table of the storage as it is (no Evaluation is created;
\* the applications, their status included, and the programs are
\* unchanged); its result is the scorer's answer for the stored
\* application and program, whatever evaluations are stored and whatever
\* the status of the application is; and a scoring call that follows one
\* on the same application returns the same result.
C26_ScoringIsPure ==
  [][AIEvaluationReturned(lastCall')
     => LET application == applications[lastCall'.arg]
        IN /\ UNCHANGED store
           /\ lastCall'.result =
                generateAIEvaluation(Without(application, {"status", "submittedAt"}),
                                     programs[application.programId],
                                     users[application.applicantId])
           /\ (AIEvaluationReturned(lastCall) /\ lastCall.arg = lastCall'.arg)
                => lastCall'.result = lastCall.result]_vars

\* the second seeded application, evaluated with 45 in the seed and once
\* more by a reviewer with the decision revisit, has been scored 90 by the
\* route: its status is still revisit and three evaluations are stored
C26_Witness ==
  /\ AIEvaluationReturned(lastCall)
  /\ lastCall.arg = 2
  /\ lastCall.result.score = 90
  /\ applications[2].status = "revisit"
  /\ DOMAIN evaluations = 1..3
  /\ evaluations[3].applicationId = 2 /\ evaluations[3].score = 45

\* C27: two advance calls on the same process that overlap can lose an
\* update.  What every write does: the call stores the completedSteps and
\* the status it computed from the process it read, so every step that was
\* stored since then by another call is dropped unless it is the step the
\* call completes, and the status is the one of the steps the call knows
\* of, whatever status is stored.  C27_Witness is a behaviour with both
\* effects of the claim.
C27_WriteStoresWhatWasRead ==
  [][\A c \in Callers :
       (calls[c].phase = "read" /\ calls'[c].phase = "returned")
       => LET call == calls[c]
              stored == registrationProcesses[call.registrationProcessId]
              written == registrationProcesses'[call.registrationProcessId]
              completedSteps == NewCompletedSteps(call.process, call.completedStep)
          IN /\ written.completedSteps = completedSteps
             /\ written.status = StepStatus(completedSteps, call.process.totalSteps)
             /\ written.currentStep = call.newStep
             /\ \A step \in Elems(NewCompletedSteps(stored, Undefined)) :
                  (step \notin Elems(NewCompletedSteps(call.process, Undefined))
                   /\ step # call.completedStep)
                  => step \notin Elems(written.completedSteps)
             /\ calls'[c].result = written]_vars

\* three calls have read the same process: two of them completed different
\* steps, and the process each of them stored has only its own step and
\* the status pending_verification; the third, which completed no step,
\* wrote last, and the stored status is incomplete again
C27_Witness ==
  \E a, b, c \in Callers :
    /\ calls[a].phase = "returned" /\ calls[b].phase = "returned"
    /\ calls[c].phase = "returned"
    /\ calls[a].process = calls[b].process /\ calls[b].process = calls[c].process
    /\ calls[a].completedStep # Undefined /\ calls[b].completedStep # Undefined
    /\ calls[a].completedStep # calls[b].completedStep
    /\ calls[a].completedStep \in Elems(calls[a].result.completedSteps)
    /\ calls[b].completedStep \notin Elems(calls[a].result.completedSteps)
    /\ calls[b].completedStep \in Elems(calls[b].result.completedSteps)
    /\ calls[a].completedStep \notin Elems(calls[b].result.completedSteps)
    /\ calls[a].result.status = REGISTRATION_STATUS.PENDING_VERIFICATION
    /\ calls[b].result.status = REGISTRATION_STATUS.PENDING_VERIFICATION
    /\ calls[c].completedStep = Undefined
    /\ lastCall.result = calls[c].result
    /\ registrationProcesses[calls[c].registrationProcessId] = calls[c].result
    /\ calls[c].result.status = REGISTRATION_STATUS.INCOMPLETE

====
